---- MODULE Spec2Model ----
(***************************************************************************)
(* Model of talpid-openvpn/src/process/openvpn.rs:                          *)
(*   - OpenVpnProcHandle: the shutdown protocol nice_kill / stop /          *)
(*     clean_up / has_stopped / kill / wait over a shared child process,    *)
(*     run by several concurrent callers;                                   *)
(*   - OpenVpnCommand: the builder and its argument generation.             *)
(***************************************************************************)
EXTENDS Integers, Sequences, FiniteSets, TLC

\* Callers that may run nice_kill on the same handle (&self is shared).
Callers == {1, 2}

\* Bound: how many nice_kill calls each caller makes on the handle.
MaxCalls == 2

NoCaller == 0

VARIABLES
    child,        \* OS state of the child: "running", "killed" (SIGKILL delivered), "exited"
    reaped,       \* tokio::process::Child has collected the exit status
    cooperative,  \* the child exits when its stdin is closed (the patched OpenVPN does)
    stdin,        \* OpenVpnProcHandle::stdin: "present" (Some(writer)) or "absent" (None)
    stdinLock,    \* holder of the parking_lot::Mutex around stdin, or NoCaller
    closeCount,   \* how many times a PipeWriter of this handle was dropped (closed)
    innerLock,    \* holder of the tokio::sync::Mutex around the Child, or NoCaller
    pc,           \* pc[c]: where caller c stands inside nice_kill
    ret,          \* ret[c]: result of c's last finished nice_kill: "none", "ok", "err"
    calls,        \* calls[c]: nice_kill calls c has started
    sawPresent,   \* sawPresent[c]: c's take() in the current call returned Some
    took,         \* took[c]: c has done the take() of its current call
    kills,        \* kills[c]: Child::kill invocations by c in its current call
    failedKill,   \* failedKill[c]: a kill by c failed in its current call
    ioError,      \* ioError[c]: some poll, wait or kill of c's current call returned Err
    timedOut,     \* timedOut[c]: the timeout elapsed in c's current call
    runAtCall,    \* runAtCall[c]: the child was running when c's current call began
    reapedAtCall, \* reapedAtCall[c]: the child was already reaped when c's call began
    overlap,      \* overlap[c]: another nice_kill call ran during c's current call
    exitCause,    \* "none", "self" (reaction to closed stdin), "kill"
    target,       \* the platform the crate is built for (cfg attributes)
    cmd,          \* the OpenVpnCommand builder
    setterCalls,  \* setter calls made on the builder
    portRecorded, \* proxy_port() has been called on the builder
    result,       \* outcome of the latest operation on the builder, when it
                  \* generated arguments: status "none", "ok" or "panic"
    prev,         \* the generation before the latest one, when no setter was
                  \* called between the two: the builder it saw and its result
    written       \* written[field]: the argument of the latest call of the
                  \* setter of that field, None when it was never called

procVars == <<child, reaped, cooperative, stdin, stdinLock, closeCount, innerLock,
              pc, ret, calls, sawPresent, took, kills, failedKill, ioError,
              timedOut, runAtCall, reapedAtCall, overlap, exitCause>>
cmdVars == <<target, cmd, setterCalls, portRecorded, result, prev, written>>
vars == <<procVars, cmdVars>>

(***************************************************************************)
(* OpenVpnProcHandle                                                        *)
(***************************************************************************)

\* OpenVpnProcHandle::new: the child has been spawned, the writer is stored.
InitProc ==
    /\ child = "running"
    /\ reaped = FALSE
    /\ cooperative \in BOOLEAN
    /\ stdin = "present"
    /\ stdinLock = NoCaller
    /\ closeCount = 0
    /\ innerLock = NoCaller
    /\ pc = [c \in Callers |-> "idle"]
    /\ ret = [c \in Callers |-> "none"]
    /\ calls = [c \in Callers |-> 0]
    /\ sawPresent = [c \in Callers |-> FALSE]
    /\ took = [c \in Callers |-> FALSE]
    /\ kills = [c \in Callers |-> 0]
    /\ failedKill = [c \in Callers |-> FALSE]
    /\ ioError = [c \in Callers |-> FALSE]
    /\ timedOut = [c \in Callers |-> FALSE]
    /\ runAtCall = [c \in Callers |-> FALSE]
    /\ reapedAtCall = [c \in Callers |-> FALSE]
    /\ overlap = [c \in Callers |-> FALSE]
    /\ exitCause = "none"

\* A caller is inside nice_kill.
Active(c) == pc[c] # "idle"

\* nice_kill that goes to clean_up without the stop before it.
NiceKillFirstCleanUp == "poll"

\* nice_kill: its first await is self.stop().
NiceKillFirst == "stop"

\* nice_kill is entered: the bookkeeping of the new call starts afresh.
NiceKill(c) ==
    /\ pc[c] = "idle"
    /\ calls[c] < MaxCalls
    /\ pc' = [pc EXCEPT ![c] = NiceKillFirst]
    /\ calls' = [calls EXCEPT ![c] = @ + 1]
    /\ ret' = [ret EXCEPT ![c] = "none"]
    /\ sawPresent' = [sawPresent EXCEPT ![c] = FALSE]
    /\ took' = [took EXCEPT ![c] = FALSE]
    /\ kills' = [kills EXCEPT ![c] = 0]
    /\ failedKill' = [failedKill EXCEPT ![c] = FALSE]
    /\ ioError' = [ioError EXCEPT ![c] = FALSE]
    /\ timedOut' = [timedOut EXCEPT ![c] = FALSE]
    /\ runAtCall' = [runAtCall EXCEPT ![c] = (child = "running")]
    /\ reapedAtCall' = [reapedAtCall EXCEPT ![c] = reaped]
    /\ overlap' = [d \in Callers |->
                     IF d = c THEN \E e \in Callers \ {c} : Active(e)
                     ELSE overlap[d] \/ Active(d)]
    /\ UNCHANGED <<cmdVars, child, reaped, cooperative, stdin, stdinLock, closeCount,
                   innerLock, exitCause>>

\* stop: self.stdin.lock()
StopLock(c) ==
    /\ pc[c] = "stop"
    /\ stdinLock = NoCaller
    /\ stdinLock' = c
    /\ pc' = [pc EXCEPT ![c] = "take"]
    /\ UNCHANGED <<cmdVars, child, reaped, cooperative, stdin, closeCount, innerLock, ret,
                   calls, sawPresent, took, kills, failedKill, ioError, timedOut,
                   runAtCall, reapedAtCall, overlap, exitCause>>

\* A take that leaves the writer in the slot.
TakeSlotKeep(slot) == [taken |-> slot, left |-> slot]

\* Option::take: the value is moved out and None is left behind.
TakeSlot(slot) == [taken |-> slot, left |-> "absent"]

\* stop: .take().is_none(); the taken writer, if any, is dropped here, which
\* closes it; the guard is released at the end of the condition.
StopTake(c) ==
    /\ pc[c] = "take"
    /\ stdinLock = c
    /\ LET t == TakeSlot(stdin) IN
        /\ stdin' = t.left
        /\ sawPresent' = [sawPresent EXCEPT ![c] = (t.taken = "present")]
        /\ took' = [took EXCEPT ![c] = TRUE]
        /\ closeCount' = IF t.taken = "present" THEN closeCount + 1 ELSE closeCount
    /\ stdinLock' = NoCaller
    /\ pc' = [pc EXCEPT ![c] = "poll"]
    /\ UNCHANGED <<cmdVars, child, reaped, cooperative, innerLock, ret, calls, kills,
                   failedKill, ioError, timedOut, runAtCall, reapedAtCall, overlap, exitCause>>

\* Outcomes of Child::try_wait in the current state of the child.
PollOutcomes ==
    IF reaped THEN {"true"}
    ELSE IF child = "exited" THEN {"true", "err"}
    ELSE {"false", "err"}

\* clean_up that kills whatever the poll said.
CleanUpNextAlwaysKill(r) == "ckill"

\* clean_up: match self.has_stopped().await
CleanUpNext(r) ==
    CASE r = "false" -> "ckill"
      [] r = "err"   -> "ckill"
      [] OTHER       -> "wait"

\* clean_up -> has_stopped: self.inner.lock().await.try_wait()
HasStopped(c) ==
    /\ pc[c] = "poll"
    /\ innerLock = NoCaller
    /\ \E r \in PollOutcomes :
        /\ reaped' = (reaped \/ r = "true")
        /\ ioError' = [ioError EXCEPT ![c] = @ \/ r = "err"]
        /\ pc' = [pc EXCEPT ![c] = CleanUpNext(r)]
    /\ UNCHANGED <<cmdVars, child, cooperative, stdin, stdinLock, closeCount, innerLock,
                   ret, calls, sawPresent, took, kills, failedKill, timedOut,
                   runAtCall, reapedAtCall, overlap, exitCause>>

\* Where a call stands after its kill() returned: clean_up logs the error and
\* nice_kill goes on to the timed wait; the kill after the timeout ends the call.
AfterKill(c, ok) ==
    IF pc[c] \in {"ckill", "ckill_wait"}
    THEN /\ pc' = [pc EXCEPT ![c] = "wait"]
         /\ UNCHANGED ret
    ELSE /\ pc' = [pc EXCEPT ![c] = "idle"]
         /\ ret' = [ret EXCEPT ![c] = IF ok THEN "ok" ELSE "err"]

\* kill: self.inner.lock().await.kill(), the kill request itself.
KillStart(c) ==
    /\ pc[c] \in {"ckill", "fkill"}
    /\ innerLock = NoCaller
    /\ kills' = [kills EXCEPT ![c] = @ + 1]
    /\ \E ok \in BOOLEAN :
        IF ok
        THEN /\ child' = IF child = "running" THEN "killed" ELSE child
             /\ innerLock' = c
             /\ pc' = [pc EXCEPT ![c] = IF pc[c] = "ckill" THEN "ckill_wait"
                                        ELSE "fkill_wait"]
             /\ UNCHANGED <<cmdVars, ret, failedKill, ioError>>
        ELSE /\ failedKill' = [failedKill EXCEPT ![c] = TRUE]
             /\ ioError' = [ioError EXCEPT ![c] = TRUE]
             /\ AfterKill(c, FALSE)
             /\ UNCHANGED <<cmdVars, child, innerLock>>
    /\ UNCHANGED <<cmdVars, reaped, cooperative, stdin, stdinLock, closeCount, calls,
                   sawPresent, took, timedOut, runAtCall, reapedAtCall, overlap, exitCause>>

\* kill: Child::kill awaits the exit of the child it has killed.
KillWait(c) ==
    /\ pc[c] \in {"ckill_wait", "fkill_wait"}
    /\ innerLock = c
    /\ child = "exited"
    /\ reaped' = TRUE
    /\ innerLock' = NoCaller
    /\ AfterKill(c, TRUE)
    /\ UNCHANGED <<cmdVars, child, cooperative, stdin, stdinLock, closeCount, calls,
                   sawPresent, took, kills, failedKill, ioError, timedOut, runAtCall, reapedAtCall,
                   overlap, exitCause>>

\* kill: the wait inside Child::kill returns an I/O error.
KillWaitErr(c) ==
    /\ pc[c] \in {"ckill_wait", "fkill_wait"}
    /\ innerLock = c
    /\ ~reaped
    /\ innerLock' = NoCaller
    /\ failedKill' = [failedKill EXCEPT ![c] = TRUE]
    /\ ioError' = [ioError EXCEPT ![c] = TRUE]
    /\ AfterKill(c, FALSE)
    /\ UNCHANGED <<cmdVars, child, reaped, cooperative, stdin, stdinLock, closeCount,
                   calls, sawPresent, took, kills, timedOut, runAtCall, reapedAtCall, overlap,
                   exitCause>>

\* wait: self.inner.lock().await, inside the timeout.
WaitLock(c) ==
    /\ pc[c] = "wait"
    /\ innerLock = NoCaller
    /\ innerLock' = c
    /\ pc' = [pc EXCEPT ![c] = "waiting"]
    /\ UNCHANGED <<cmdVars, child, reaped, cooperative, stdin, stdinLock, closeCount, ret,
                   calls, sawPresent, took, kills, failedKill, ioError, timedOut,
                   runAtCall, reapedAtCall, overlap, exitCause>>

\* nice_kill that kills whatever the timed wait gave.
OnWaitResultAlwaysKill(r) == "fkill"

\* nice_kill: match wait_result; "exited" and "err" are Ok(_) of the timeout,
\* "elapsed" is its Err(_).
OnWaitResult(r) == IF r = "elapsed" THEN "fkill" ELSE "idle"

\* The timed wait is over with result r.
WaitOver(c, r) ==
    LET next == OnWaitResult(r) IN
    /\ pc' = [pc EXCEPT ![c] = next]
    /\ ret' = [ret EXCEPT ![c] = IF next = "idle" THEN "ok" ELSE @]

\* wait: Child::wait returns the exit status.
WaitDone(c) ==
    /\ pc[c] = "waiting"
    /\ innerLock = c
    /\ child = "exited"
    /\ reaped' = TRUE
    /\ innerLock' = NoCaller
    /\ WaitOver(c, "exited")
    /\ UNCHANGED <<cmdVars, child, cooperative, stdin, stdinLock, closeCount, calls,
                   sawPresent, took, kills, failedKill, ioError, timedOut, runAtCall, reapedAtCall,
                   overlap, exitCause>>

\* wait: Child::wait returns an I/O error.
WaitErr(c) ==
    /\ pc[c] = "waiting"
    /\ innerLock = c
    /\ ~reaped
    /\ innerLock' = NoCaller
    /\ ioError' = [ioError EXCEPT ![c] = TRUE]
    /\ WaitOver(c, "err")
    /\ UNCHANGED <<cmdVars, child, reaped, cooperative, stdin, stdinLock, closeCount,
                   calls, sawPresent, took, kills, failedKill, timedOut, runAtCall, reapedAtCall,
                   overlap, exitCause>>

\* The guard of the abandoned wait is kept.
LockKeptAfterTimeout(c) == innerLock

\* The wait future is dropped when the timeout elapses: its guard, if it had
\* one, is released.
LockAfterTimeout(c) == IF innerLock = c THEN NoCaller ELSE innerLock

\* nice_kill: the timeout elapses while the wait is pending, either on the
\* lock or on the exit of the child.
Timeout(c) ==
    /\ \/ pc[c] = "wait" /\ innerLock # NoCaller
       \/ pc[c] = "waiting" /\ child # "exited"
    /\ timedOut' = [timedOut EXCEPT ![c] = TRUE]
    /\ innerLock' = LockAfterTimeout(c)
    /\ WaitOver(c, "elapsed")
    /\ UNCHANGED <<cmdVars, child, reaped, cooperative, stdin, stdinLock, closeCount,
                   calls, sawPresent, took, kills, failedKill, ioError, runAtCall, reapedAtCall,
                   overlap, exitCause>>

\* The patched OpenVPN exits once its stdin is closed.
ChildExitsSelf ==
    /\ child = "running"
    /\ cooperative
    /\ closeCount > 0
    /\ child' = "exited"
    /\ exitCause' = "self"
    /\ UNCHANGED <<cmdVars, reaped, cooperative, stdin, stdinLock, closeCount, innerLock,
                   pc, ret, calls, sawPresent, took, kills, failedKill, ioError,
                   timedOut, runAtCall, reapedAtCall, overlap>>

\* A child that was sent SIGKILL terminates.
ChildDies ==
    /\ child = "killed"
    /\ child' = "exited"
    /\ exitCause' = "kill"
    /\ UNCHANGED <<cmdVars, reaped, cooperative, stdin, stdinLock, closeCount, innerLock,
                   pc, ret, calls, sawPresent, took, kills, failedKill, ioError,
                   timedOut, runAtCall, reapedAtCall, overlap>>



(***************************************************************************)
(* OpenVpnCommand                                                           *)
(***************************************************************************)

\* Bound: how many setter calls are made on one builder.
MaxSetterCalls == 4

\* Option<T>
None == <<>>
Some(x) == <<x>>
IsSome(o) == Len(o) = 1
Unwrap(o) == o[1]

\* Platforms told apart by the cfg attributes of the file.
Targets == {"linux", "windows", "macos"}

\* u16/u32 to_string: the decimal digits.
IntToString(n) == ToString(n)

\* Ipv4Addr to_string: the four octets in decimal, joined by dots.
IpToString(ip) ==
    IntToString(ip[1]) \o "." \o IntToString(ip[2]) \o "."
        \o IntToString(ip[3]) \o "." \o IntToString(ip[4])

\* A path that is not valid UTF-8 and what to_string_lossy makes of it.
NonUtf8Path == "/tmp/proxy_auth<FF>"
to_string_lossy(path) ==
    IF path = NonUtf8Path THEN "/tmp/proxy_auth<U+FFFD>" ELSE path

\* The values the setters are called with.
SocketAddr(ip, port) == [ip |-> ip, port |-> port]
Endpoints ==
    { [address |-> SocketAddr(<<127, 0, 0, 1>>, 3333), protocol |-> "Udp"],
      [address |-> SocketAddr(<<10, 0, 0, 2>>, 443), protocol |-> "Tcp"] }
ConfigPaths == {"/etc/openvpn.conf"}
UserPassPaths == {"/tmp/user_pass"}
ProxyAuthPaths == {"/tmp/proxy_auth", NonUtf8Path}
CaPaths == {"/etc/ca.crt"}
CrlPaths == {"/etc/crl.pem"}
LogPaths == {"/var/log/openvpn.log"}
Plugins ==
    { <<"./a/path", <<>>>>,
      <<"", <<"123", "cde">>>>,
      <<"./a/path", <<"cde", "123", "cde">>>> }
TunnelOptionsValues == { [mssfix |-> None], [mssfix |-> Some(1300)] }
TunnelAliases == { None, Some("tun0") }
Fwmarks == { None, Some(1836018789) }
ProxyPorts == { 1081 }
ProxySettingsValues ==
    { [kind |-> "Local", port |-> 1080,
       peer |-> SocketAddr(<<185, 65, 135, 1>>, 443)],
      [kind |-> "Remote", address |-> SocketAddr(<<192, 168, 1, 9>>, 1090),
       auth |-> None],
      [kind |-> "Remote", address |-> SocketAddr(<<192, 168, 1, 9>>, 1090),
       auth |-> Some([username |-> "u", password |-> "p"])],
      [kind |-> "Shadowsocks", peer |-> SocketAddr(<<185, 65, 135, 2>>, 443)] }

\* OpenVpnCommand::new
NewCommand ==
    [ openvpn_bin |-> "openvpn",
      config |-> None,
      remote |-> None,
      user_pass_path |-> None,
      proxy_auth_path |-> None,
      ca |-> None,
      crl |-> None,
      plugin |-> None,
      log |-> None,
      tunnel_options |-> [mssfix |-> None],
      proxy_settings |-> None,
      tunnel_alias |-> None,
      enable_ipv6 |-> TRUE,
      proxy_port |-> None,
      fwmark |-> None ]

\* No arguments have been generated from the builder as it stands.
NoResult == [status |-> "none", args |-> <<>>, op |-> "none"]

\* No earlier generation to compare the latest one with.
NoPrev == [some |-> FALSE, cmd |-> NewCommand, args |-> <<>>]

\* No setter has been called.
NothingWritten ==
    [ fwmark |-> None, config |-> None, remote |-> None, user_pass_path |-> None,
      proxy_auth_path |-> None, ca |-> None, crl |-> None, plugin |-> None,
      log |-> None, tunnel_options |-> None, tunnel_alias |-> None,
      enable_ipv6 |-> None, proxy_port |-> None, proxy_settings |-> None ]

InitCmd ==
    /\ target \in Targets
    /\ cmd = NewCommand
    /\ setterCalls = 0
    /\ portRecorded = FALSE
    /\ result = NoResult
    /\ prev = NoPrev
    /\ written = NothingWritten

\* BASE_ARGUMENTS, with the entries the cfg attributes keep for the target.
BASE_ARGUMENTS ==
    << <<"--client">>,
       <<"--tls-client">>,
       <<"--nobind">>,
       <<"--mute-replay-warnings">> >>
    \o (IF target # "windows" THEN << <<"--dev", "tun">> >>
        ELSE << <<"--dev-type", "tun">> >>)
    \o << <<"--ping", "4">>,
          <<"--ping-exit", "25">>,
          <<"--connect-timeout", "30">>,
          <<"--connect-retry", "0", "0">>,
          <<"--connect-retry-max", "1">>,
          <<"--remote-cert-tls", "server">>,
          <<"--rcvbuf", "1048576">>,
          <<"--sndbuf", "1048576">>,
          <<"--fast-io">>,
          <<"--data-ciphers-fallback", "AES-256-GCM">>,
          <<"--tls-version-min", "1.3">>,
          <<"--verb", "3">> >>
    \o (IF target = "windows"
        THEN << <<"--route-gateway", "dhcp", "--route", "0.0.0.0", "0.0.0.0",
                  "vpn_gateway", "1">> >>
        ELSE <<>>)
    \o (IF target = "linux" THEN << <<"--route-noexec">> >> ELSE <<>>)
    \o (IF target = "windows"
        THEN << <<"--ip-win32", "ipapi">>, <<"--windows-driver", "wintun">> >>
        ELSE <<>>)

ALLOWED_TLS1_3_CIPHERS == <<"TLS_AES_256_GCM_SHA384", "TLS_CHACHA20_POLY1305_SHA256">>

\* The concatenation of a sequence of sequences, in order.
RECURSIVE Flatten(_)
Flatten(lists) ==
    IF lists = <<>> THEN <<>> ELSE Head(lists) \o Flatten(Tail(lists))

\* [&str]::join
RECURSIVE Join(_, _)
Join(strs, sep) ==
    IF strs = <<>> THEN ""
    ELSE IF Len(strs) = 1 THEN strs[1]
    ELSE strs[1] \o sep \o Join(Tail(strs), sep)

base_arguments == Flatten(BASE_ARGUMENTS)

\* The cipher suites joined by a comma.
tls_cipher_arguments_comma == <<"--tls-ciphersuites", Join(ALLOWED_TLS1_3_CIPHERS, ",")>>

tls_cipher_arguments == <<"--tls-ciphersuites", Join(ALLOWED_TLS1_3_CIPHERS, ":")>>

\* remote_arguments with the address and the port in the wrong order.
remote_arguments_swapped(c) ==
    IF IsSome(c.remote)
    THEN LET endpoint == Unwrap(c.remote) IN
         << "--proto",
            IF endpoint.protocol = "Udp" THEN "udp" ELSE "tcp-client",
            "--remote",
            IntToString(endpoint.address.port),
            IpToString(endpoint.address.ip) >>
    ELSE <<>>

remote_arguments(c) ==
    IF IsSome(c.remote)
    THEN LET endpoint == Unwrap(c.remote) IN
         << "--proto",
            IF endpoint.protocol = "Udp" THEN "udp" ELSE "tcp-client",
            "--remote",
            IpToString(endpoint.address.ip),
            IntToString(endpoint.address.port) >>
    ELSE <<>>

authentication_arguments(c) ==
    IF IsSome(c.user_pass_path)
    THEN <<"--auth-user-pass", Unwrap(c.user_pass_path)>>
    ELSE <<>>

\* The plugin flag and path without the plugin's arguments.
plugin_arguments_path_only(c) ==
    IF IsSome(c.plugin) THEN <<"--plugin", Unwrap(c.plugin)[1]>> ELSE <<>>

\* get_arguments: the plugin flag, the path and each plugin argument.
plugin_arguments(c) ==
    IF IsSome(c.plugin)
    THEN <<"--plugin", Unwrap(c.plugin)[1]>> \o Unwrap(c.plugin)[2]
    ELSE <<>>

\* The single-host route through the network gateway.
\* The route with the mask of a /24 network instead of that of one host.
HostRouteNet(ip) == <<"--route", IpToString(ip), "255.255.255.0", "net_gateway">>

HostRoute(ip) == <<"--route", IpToString(ip), "255.255.255.255", "net_gateway">>

\* proxy_arguments that leaves the port out when none was recorded.
proxy_arguments_silent(c) ==
    IF ~IsSome(c.proxy_settings) THEN [panic |-> FALSE, args |-> <<>>]
    ELSE LET ps == Unwrap(c.proxy_settings) IN
         CASE ps.kind = "Local" ->
                [panic |-> FALSE,
                 args |-> <<"--socks-proxy", "127.0.0.1", IntToString(ps.port)>>
                          \o HostRoute(ps.peer.ip)]
           [] ps.kind = "Remote" ->
                [panic |-> FALSE,
                 args |-> <<"--socks-proxy", IpToString(ps.address.ip),
                            IntToString(ps.address.port)>>
                          \o (IF IsSome(ps.auth) /\ IsSome(c.proxy_auth_path)
                              THEN <<to_string_lossy(Unwrap(c.proxy_auth_path))>>
                              ELSE <<>>)
                          \o HostRoute(ps.address.ip)]
           [] ps.kind = "Shadowsocks" ->
                [panic |-> FALSE,
                 args |-> <<"--socks-proxy", "127.0.0.1">>
                          \o (IF IsSome(c.proxy_port)
                              THEN <<IntToString(Unwrap(c.proxy_port))>>
                              ELSE <<>>)
                          \o HostRoute(ps.peer.ip)]

\* proxy_arguments: the arguments, or a panic when the Shadowsocks variant is
\* reached without a recorded port.
proxy_arguments(c) ==
    IF ~IsSome(c.proxy_settings) THEN [panic |-> FALSE, args |-> <<>>]
    ELSE LET ps == Unwrap(c.proxy_settings) IN
         CASE ps.kind = "Local" ->
                [panic |-> FALSE,
                 args |-> <<"--socks-proxy", "127.0.0.1", IntToString(ps.port)>>
                          \o HostRoute(ps.peer.ip)]
           [] ps.kind = "Remote" ->
                [panic |-> FALSE,
                 args |-> <<"--socks-proxy", IpToString(ps.address.ip),
                            IntToString(ps.address.port)>>
                          \o (IF IsSome(ps.auth) /\ IsSome(c.proxy_auth_path)
                              THEN <<to_string_lossy(Unwrap(c.proxy_auth_path))>>
                              ELSE <<>>)
                          \o HostRoute(ps.address.ip)]
           [] ps.kind = "Shadowsocks" ->
                IF IsSome(c.proxy_port)
                THEN [panic |-> FALSE,
                      args |-> <<"--socks-proxy", "127.0.0.1",
                                 IntToString(Unwrap(c.proxy_port))>>
                               \o HostRoute(ps.peer.ip)]
                ELSE [panic |-> TRUE, args |-> <<>>]

\* The pull filter of the IPv6 routes without the one of the IPv6 addresses.
ipv6_arguments_routes_only(c) ==
    IF ~c.enable_ipv6 THEN <<"--pull-filter", "ignore", "route-ipv6">> ELSE <<>>

\* get_arguments: the block that runs when enable_ipv6 is false.
ipv6_arguments(c) ==
    IF ~c.enable_ipv6
    THEN <<"--pull-filter", "ignore", "route-ipv6",
           "--pull-filter", "ignore", "ifconfig-ipv6">>
    ELSE <<>>

\* get_arguments: the groups in the order the code pushes them; a panic of
\* proxy_arguments unwinds through it and no list is returned.
get_arguments(c) ==
    LET proxy == proxy_arguments(c) IN
    IF proxy.panic THEN [status |-> "panic", args |-> <<>>, op |-> "none"]
    ELSE [status |-> "ok", op |-> "none",
          args |->
            base_arguments
            \o (IF IsSome(c.config) THEN <<"--config", Unwrap(c.config)>> ELSE <<>>)
            \o remote_arguments(c)
            \o authentication_arguments(c)
            \o (IF IsSome(c.ca) THEN <<"--ca", Unwrap(c.ca)>> ELSE <<>>)
            \o (IF IsSome(c.crl) THEN <<"--crl-verify", Unwrap(c.crl)>> ELSE <<>>)
            \o plugin_arguments(c)
            \o (IF IsSome(c.log) THEN <<"--log", Unwrap(c.log)>> ELSE <<>>)
            \o (IF IsSome(c.tunnel_options.mssfix)
                THEN <<"--mssfix", IntToString(Unwrap(c.tunnel_options.mssfix))>>
                ELSE <<>>)
            \o ipv6_arguments(c)
            \o (IF IsSome(c.tunnel_alias)
                THEN <<"--dev-node", Unwrap(c.tunnel_alias)>> ELSE <<>>)
            \o tls_cipher_arguments
            \o proxy.args
            \o (IF target = "linux" /\ IsSome(c.fwmark)
                THEN <<"--mark", IntToString(Unwrap(c.fwmark))>> ELSE <<>>)]

\* A setter call: the builder is usable (no panic has unwound) and the call
\* leaves the new builder without a generated result.
Setter(new) ==
    /\ result.status # "panic"
    /\ setterCalls < MaxSetterCalls
    /\ setterCalls' = setterCalls + 1
    /\ cmd' = new
    /\ result' = NoResult
    /\ prev' = NoPrev
    /\ UNCHANGED <<procVars, target>>

SetFwmark ==
    /\ target = "linux"
    /\ \E v \in Fwmarks :
        /\ Setter([cmd EXCEPT !.fwmark = v])
        /\ written' = [written EXCEPT !.fwmark = Some(v)]
    /\ UNCHANGED portRecorded

SetConfig ==
    /\ \E path \in ConfigPaths :
        /\ Setter([cmd EXCEPT !.config = Some(path)])
        /\ written' = [written EXCEPT !.config = Some(path)]
    /\ UNCHANGED portRecorded

SetRemote ==
    /\ \E remote \in Endpoints :
        /\ Setter([cmd EXCEPT !.remote = Some(remote)])
        /\ written' = [written EXCEPT !.remote = Some(remote)]
    /\ UNCHANGED portRecorded

SetUserPass ==
    /\ \E path \in UserPassPaths :
        /\ Setter([cmd EXCEPT !.user_pass_path = Some(path)])
        /\ written' = [written EXCEPT !.user_pass_path = Some(path)]
    /\ UNCHANGED portRecorded

SetProxyAuth ==
    /\ \E path \in ProxyAuthPaths :
        /\ Setter([cmd EXCEPT !.proxy_auth_path = Some(path)])
        /\ written' = [written EXCEPT !.proxy_auth_path = Some(path)]
    /\ UNCHANGED portRecorded

SetCa ==
    /\ \E path \in CaPaths :
        /\ Setter([cmd EXCEPT !.ca = Some(path)])
        /\ written' = [written EXCEPT !.ca = Some(path)]
    /\ UNCHANGED portRecorded

SetCrl ==
    /\ \E path \in CrlPaths :
        /\ Setter([cmd EXCEPT !.crl = Some(path)])
        /\ written' = [written EXCEPT !.crl = Some(path)]
    /\ UNCHANGED portRecorded

SetPlugin ==
    /\ \E pl \in Plugins :
        /\ Setter([cmd EXCEPT !.plugin = Some(pl)])
        /\ written' = [written EXCEPT !.plugin = Some(pl)]
    /\ UNCHANGED portRecorded

SetLog ==
    /\ \E path \in LogPaths :
        /\ Setter([cmd EXCEPT !.log = Some(path)])
        /\ written' = [written EXCEPT !.log = Some(path)]
    /\ UNCHANGED portRecorded

SetTunnelOptions ==
    /\ \E t \in TunnelOptionsValues :
        /\ Setter([cmd EXCEPT !.tunnel_options = t])
        /\ written' = [written EXCEPT !.tunnel_options = Some(t)]
    /\ UNCHANGED portRecorded

SetTunnelAlias ==
    /\ \E a \in TunnelAliases :
        /\ Setter([cmd EXCEPT !.tunnel_alias = a])
        /\ written' = [written EXCEPT !.tunnel_alias = Some(a)]
    /\ UNCHANGED portRecorded

SetEnableIpv6 ==
    /\ \E b \in BOOLEAN :
        /\ Setter([cmd EXCEPT !.enable_ipv6 = b])
        /\ written' = [written EXCEPT !.enable_ipv6 = Some(b)]
    /\ UNCHANGED portRecorded

SetProxyPort ==
    /\ \E port \in ProxyPorts :
        /\ Setter([cmd EXCEPT !.proxy_port = Some(port)])
        /\ written' = [written EXCEPT !.proxy_port = Some(port)]
    /\ portRecorded' = TRUE

\* proxy_settings that also forgets the recorded proxy port.
SetProxySettingsClearsPort ==
    /\ \E ps \in ProxySettingsValues :
        /\ Setter([cmd EXCEPT !.proxy_settings = Some(ps), !.proxy_port = None])
        /\ written' = [written EXCEPT !.proxy_settings = Some(ps)]
    /\ UNCHANGED portRecorded

SetProxySettings ==
    /\ \E ps \in ProxySettingsValues :
        /\ Setter([cmd EXCEPT !.proxy_settings = Some(ps)])
        /\ written' = [written EXCEPT !.proxy_settings = Some(ps)]
    /\ UNCHANGED portRecorded

\* The generation that a new one follows with no setter call in between.
Earlier ==
    IF result.status = "ok"
    THEN [some |-> TRUE, cmd |-> cmd, args |-> result.args]
    ELSE NoPrev

\* get_arguments that moves the plugin out of the builder.
GetArgumentsTakesPlugin ==
    /\ result.status # "panic"
    /\ result' = [get_arguments(cmd) EXCEPT !.op = "get_arguments"]
    /\ prev' = Earlier
    /\ cmd' = [cmd EXCEPT !.plugin = None]
    /\ UNCHANGED <<procVars, target, setterCalls, portRecorded, written>>

\* get_arguments called on the builder (as the tests do).
GetArguments ==
    /\ result.status # "panic"
    /\ result' = [get_arguments(cmd) EXCEPT !.op = "get_arguments"]
    /\ prev' = Earlier
    /\ UNCHANGED <<procVars, target, cmd, setterCalls, portRecorded, written>>

\* build: the Display of the debug log line and handle.args both call
\* get_arguments on the same builder; the Command carries its arguments.
Build ==
    /\ result.status # "panic"
    /\ result' = [get_arguments(cmd) EXCEPT !.op = "build"]
    /\ prev' = Earlier
    /\ UNCHANGED <<procVars, target, cmd, setterCalls, portRecorded, written>>

NextCmd ==
    \/ SetFwmark
    \/ SetConfig
    \/ SetRemote
    \/ SetUserPass
    \/ SetProxyAuth
    \/ SetCa
    \/ SetCrl
    \/ SetPlugin
    \/ SetLog
    \/ SetTunnelOptions
    \/ SetTunnelAlias
    \/ SetEnableIpv6
    \/ SetProxyPort
    \/ SetProxySettings
    \/ GetArguments
    \/ Build

(***************************************************************************)
(* Specifications                                                           *)
(***************************************************************************)

NextProc ==
    \/ \E c \in Callers : NiceKill(c)
    \/ \E c \in Callers : StopLock(c)
    \/ \E c \in Callers : StopTake(c)
    \/ \E c \in Callers : HasStopped(c)
    \/ \E c \in Callers : KillStart(c)
    \/ \E c \in Callers : KillWait(c)
    \/ \E c \in Callers : KillWaitErr(c)
    \/ \E c \in Callers : WaitLock(c)
    \/ \E c \in Callers : WaitDone(c)
    \/ \E c \in Callers : WaitErr(c)
    \/ \E c \in Callers : Timeout(c)
    \/ ChildExitsSelf
    \/ ChildDies

\* The handle when nothing is asked of the builder.
IdleCmd ==
    /\ target = "linux"
    /\ cmd = NewCommand
    /\ setterCalls = 0
    /\ portRecorded = FALSE
    /\ result = NoResult
    /\ prev = NoPrev
    /\ written = NothingWritten

Init == InitProc /\ IdleCmd

\* The shutdown protocol of one handle shared by the callers.
Spec == Init /\ [][NextProc]_vars

\* The builder: setter calls on a new OpenVpnCommand and the generation of
\* its arguments; the process handle is left as it was created.
InitBuilder == InitCmd /\ InitProc /\ cooperative

BuilderSpec == InitBuilder /\ [][NextCmd]_vars

\* The steps of caller c that the runtime runs once they can be taken; the
\* I/O errors of the primitives are left out, nothing makes them happen.
Progress(c) ==
    \/ StopLock(c)
    \/ StopTake(c)
    \/ HasStopped(c)
    \/ KillStart(c)
    \/ KillWait(c)
    \/ WaitLock(c)
    \/ WaitDone(c)
    \/ Timeout(c)

\* Spec with a fair runtime: a task that can repeatedly proceed (both mutexes
\* hand the lock over to waiters) does proceed, the timeout fires, and a
\* child that was sent SIGKILL terminates.
FairSpec ==
    /\ Spec
    /\ WF_vars(ChildDies)
    /\ \A c \in Callers : SF_vars(Progress(c))

(***************************************************************************)
(* Claims about nice_kill                                                   *)
(***************************************************************************)

\* Caller c's last nice_kill call has returned.
Returned(c) == pc[c] = "idle" /\ ret[c] # "none"

\* C1: a nice_kill call on a child that was running at the call and exited by
\* itself, after its stdin was closed and before the timeout elapsed (the
\* timed wait of the call ended with the exit status, no primitive failed),
\* has invoked the kill primitive zero times.
C1_NoKillWhenChildExitsInTime ==
    \A c \in Callers :
        (Returned(c) /\ runAtCall[c] /\ exitCause = "self"
            /\ ~timedOut[c] /\ ~ioError[c])
            => kills[c] = 0

C3_OkImpliesExited ==
    \A c \in Callers :
        (Returned(c) /\ ret[c] = "ok") => (child = "exited" /\ reaped)

\* C4: a nice_kill call during which a kill failed returns an I/O error.
C4_FailedKillIsReturned ==
    \A c \in Callers :
        (Returned(c) /\ failedKill[c]) => ret[c] = "err"

\* C5: the writer is closed at most once over the life of the handle, the
\* slot is absent exactly from that close on, and at most one of the calls in
\* progress has observed the slot as present.
C5_WriterTakenOnce ==
    /\ closeCount <= 1
    /\ (stdin = "present") <=> (closeCount = 0)
    /\ Cardinality({c \in Callers : Active(c) /\ sawPresent[c]}) <= 1

\* C5 witness: the writer has been closed and a later take found the slot
\* empty and went on to the poll of clean_up.
C5_Witness ==
    \E c \in Callers :
        closeCount = 1 /\ stdin = "absent" /\ pc[c] = "poll" /\ ~sawPresent[c]

\* C6: every nice_kill call that has begun eventually returns.
C6_EveryCallReturns ==
    \A c \in Callers : Active(c) ~> Returned(c)

\* C6 witness: a call that was overlapped by another call and whose timeout
\* elapsed on a child that ignores its stdin has returned.
C6_Witness ==
    \E c \in Callers :
        Returned(c) /\ overlap[c] /\ timedOut[c] /\ ~cooperative

\* C7: within one nice_kill call, no kill is issued once a kill has failed.
C7_NoKillAfterFailedKill ==
    [][\A c \in Callers :
          (Active(c) /\ failedKill[c]) => kills'[c] = kills[c]]_vars

C15_PollNeverBlocked ==
    \A c \in Callers : pc[c] = "poll" => ENABLED HasStopped(c)

\* C16: a caller that has begun its poll, its wait for the exit or a kill in
\* the current nice_kill call has done the take of the stdin slot in that call
\* before.
C16_TakeBeforeWaitAndKill ==
    \A c \in Callers :
        (pc[c] \in {"poll", "ckill", "ckill_wait", "wait", "waiting",
                    "fkill", "fkill_wait"} \/ kills[c] > 0)
            => took[c]

\* C16 witness: a caller is in the kill after its timeout, its second kill of
\* the call, and took the writer out of the slot at the start of the call.
C16_Witness ==
    \E c \in Callers :
        pc[c] = "fkill_wait" /\ kills[c] = 2 /\ took[c] /\ sawPresent[c]

\* C19 as stated: every invocation of the kill primitive is issued against a
\* child that has not exited and has not been reaped.
C19_KillOnlyOnLiveChild ==
    [][\A c \in Callers :
          kills'[c] > kills[c] => (child # "exited" /\ ~reaped)]_vars

\* C19 amended: in a nice_kill call that no other call has overlapped, no
\* invocation of the kill primitive is issued against a reaped child (the
\* child may have exited on its own since the poll; in overlapping calls the
\* other caller may have reaped it).
C19_NoKillOnReapedChildAlone ==
    [][\A c \in Callers :
          (kills'[c] > kills[c] /\ ~overlap[c]) => ~reaped]_vars

\* C19 witness: a call that no other call overlapped has invoked the kill
\* primitive twice.
C19_Witness ==
    \E c \in Callers : kills[c] = 2 /\ ~overlap[c] /\ pc[c] # "idle"

(***************************************************************************)
(* Claims about OpenVpnCommand                                              *)
(***************************************************************************)

\* The proxy settings of the builder are the dynamic-port variant.
IsShadowsocks ==
    IsSome(cmd.proxy_settings) /\ Unwrap(cmd.proxy_settings).kind = "Shadowsocks"

\* C8: when arguments are generated (by get_arguments or by build) from a
\* builder whose proxy settings are the Shadowsocks variant and which holds
\* no proxy port, the generation panics and yields no argument list; when
\* proxy_port was called at any point before the generation, it succeeds.
C8_DynamicPortWithoutPortPanics ==
    (result.status # "none" /\ IsShadowsocks) =>
        /\ ~IsSome(cmd.proxy_port) => (result.status = "panic" /\ result.args = <<>>)
        /\ portRecorded => result.status = "ok"

\* C8 witness: a generation has panicked on a builder that went through
\* several setter calls.
C8_Witness ==
    result.status = "panic" /\ IsShadowsocks /\ setterCalls >= 2

\* The tokens the two endpoints of Endpoints must give: protocol token,
\* address string, port string.
C9_Tokens(endpoint) ==
    IF endpoint.protocol = "Udp" /\ endpoint.address.ip = <<127, 0, 0, 1>>
    THEN <<"udp", "127.0.0.1", "3333">>
    ELSE <<"tcp-client", "10.0.0.2", "443">>

\* C9: the arguments generated from a builder with a remote endpoint hold the
\* protocol token, the address string and the port string as three entries
\* in that order, whatever the other fields are.
C9_RemoteTokensInOrder ==
    (result.status = "ok" /\ IsSome(cmd.remote)) =>
        LET want == C9_Tokens(Unwrap(cmd.remote))
            a == result.args
        IN \E i \in 1..Len(a) :
            /\ a[i] = want[1]
            /\ \E j \in (i + 1)..Len(a) :
                /\ a[j] = want[2]
                /\ \E k \in (j + 1)..Len(a) : a[k] = want[3]

\* C9 witness: arguments were generated for a TCP remote on a builder that
\* also has proxy settings.
C9_Witness ==
    /\ result.status = "ok"
    /\ IsSome(cmd.remote) /\ Unwrap(cmd.remote).protocol = "Tcp"
    /\ IsSome(cmd.proxy_settings)

\* C10: the arguments generated from a builder with a plugin hold the plugin
\* path immediately followed by the plugin's arguments, each its own entry,
\* in the order they were given.
C10_PluginPathThenArgs ==
    (result.status = "ok" /\ IsSome(cmd.plugin)) =>
        LET path == Unwrap(cmd.plugin)[1]
            pargs == Unwrap(cmd.plugin)[2]
            a == result.args
        IN \E i \in 1..Len(a) :
            /\ a[i] = path
            /\ i + Len(pargs) <= Len(a)
            /\ \A k \in 1..Len(pargs) : a[i + k] = pargs[k]

\* C10 witness: arguments were generated for a plugin with three arguments
\* on a builder with other fields set.
C10_Witness ==
    /\ result.status = "ok"
    /\ IsSome(cmd.plugin) /\ Len(Unwrap(cmd.plugin)[2]) = 3
    /\ IsSome(cmd.log) /\ IsSome(cmd.crl)

\* The two pull filters that the builder adds when IPv6 is disabled.
Ipv6Filters ==
    <<"--pull-filter", "ignore", "route-ipv6",
      "--pull-filter", "ignore", "ifconfig-ipv6">>

\* The arguments of the builder as it stands but with IPv6 enabled.
ArgsWithIpv6 == get_arguments([cmd EXCEPT !.enable_ipv6 = TRUE]).args

Pos(token, args) ==
    LET at == {i \in 1..Len(args) : args[i] = token}
    IN IF at = {} THEN 0 ELSE CHOOSE i \in at : \A j \in at : i <= j

\* How often a token occurs in a list.
Count(token, args) == Cardinality({i \in 1..Len(args) : args[i] = token})

\* The generated arguments that follow the cipher suites, without the
\* firewall mark at the end: the part that proxy_arguments contributed.
ProxyTokens ==
    LET p == Pos("--tls-ciphersuites", result.args)
        e == IF target = "linux" /\ IsSome(cmd.fwmark)
             THEN Len(result.args) - 2 ELSE Len(result.args)
    IN SubSeq(result.args, p + 2, e)

\* The route of one host through the gateway that was there before the tunnel.
RouteTokens(ip) == <<"--route", IpToString(ip), "255.255.255.255", "net_gateway">>

IsRemoteWithAuth ==
    /\ IsSome(cmd.proxy_settings)
    /\ Unwrap(cmd.proxy_settings).kind = "Remote"
    /\ IsSome(Unwrap(cmd.proxy_settings).auth)

\* C12: a generation from a builder whose proxy is remote with credentials
\* returns normally; without a proxy-auth file its proxy arguments are the
\* SOCKS flag, the address, the port and the host route, and with a file the
\* path of the file is one more token right after the port.
C12_RemoteAuthTokens ==
    (result.status # "none" /\ IsRemoteWithAuth)
        => LET ps == Unwrap(cmd.proxy_settings)
               socks == <<"--socks-proxy", IpToString(ps.address.ip),
                          IntToString(ps.address.port)>>
           IN /\ result.status = "ok"
              /\ ProxyTokens =
                    socks
                    \o (IF IsSome(cmd.proxy_auth_path)
                        THEN <<Unwrap(cmd.proxy_auth_path)>> ELSE <<>>)
                    \o RouteTokens(ps.address.ip)

GroupFlags ==
    <<"--config", "--proto", "--auth-user-pass", "--ca", "--crl-verify",
      "--plugin", "--log", "--mssfix", "--pull-filter", "--dev-node",
      "--tls-ciphersuites", "--socks-proxy", "--mark">>

\* C17: generated arguments start with the base arguments; the groups that
\* are there come in the order config, remote, user/pass, CA, CRL, plugin,
\* log, --mssfix, IPv6 pull filters, --dev-node, cipher suites, proxy,
\* firewall mark; the cipher suite flag is always there, followed by the two
\* permitted suites joined by a colon.
C17_GroupsInOrder ==
    result.status = "ok"
        => LET a == result.args
               n == Len(base_arguments)
               IsGroupFlag(x) == \E i \in 1..Len(GroupFlags) : GroupFlags[i] = x
               Rank(x) == CHOOSE i \in 1..Len(GroupFlags) : GroupFlags[i] = x
               flags == SelectSeq(SubSeq(a, n + 1, Len(a)), IsGroupFlag)
               t == Pos("--tls-ciphersuites", a)
           IN /\ a[1] = "--client"
              /\ SubSeq(a, 1, n) = base_arguments
              /\ SelectSeq(base_arguments, IsGroupFlag) = <<>>
              /\ \A k \in 1..(Len(flags) - 1) :
                    \/ Rank(flags[k]) < Rank(flags[k + 1])
                    \/ flags[k] = "--pull-filter" /\ flags[k + 1] = "--pull-filter"
                         /\ (k = 1 \/ flags[k - 1] # "--pull-filter")
              /\ t > n
              /\ a[t + 1] = "TLS_AES_256_GCM_SHA384:TLS_CHACHA20_POLY1305_SHA256"

\* C17 witness: arguments were generated with four optional groups besides
\* the cipher suites, from both ends of the order.
C17_Witness ==
    /\ result.status = "ok"
    /\ Pos("--config", result.args) > 0 /\ Pos("--plugin", result.args) > 0
    /\ Pos("--socks-proxy", result.args) > 0 /\ Pos("--mark", result.args) > 0

\* C18: generated arguments hold no proxy token when no proxy is set; with a
\* proxy they hold one SOCKS directive (loopback and the local port for a
\* local proxy, the remote's address and port for a remote one, loopback and
\* the recorded port for a dynamic one) followed by exactly one route, that
\* of the peer's address with mask 255.255.255.255 through net_gateway.
C18_OneProxyBranch ==
    result.status = "ok"
        => IF ~IsSome(cmd.proxy_settings)
           THEN ProxyTokens = <<>> /\ Count("--socks-proxy", result.args) = 0
           ELSE LET ps == Unwrap(cmd.proxy_settings)
                    t == ProxyTokens
                    socks ==
                        CASE ps.kind = "Local" ->
                               <<"--socks-proxy", "127.0.0.1", IntToString(ps.port)>>
                          [] ps.kind = "Remote" ->
                               <<"--socks-proxy", IpToString(ps.address.ip),
                                 IntToString(ps.address.port)>>
                          [] ps.kind = "Shadowsocks" ->
                               <<"--socks-proxy", "127.0.0.1",
                                 IntToString(Unwrap(written.proxy_port))>>
                    peer == IF ps.kind = "Remote" THEN ps.address.ip ELSE ps.peer.ip
                IN /\ Count("--socks-proxy", result.args) = 1
                   /\ Count("--route", t) = 1
                   /\ Len(t) \in {7, 8}
                   /\ Len(t) = 8 => (IsRemoteWithAuth /\ IsSome(cmd.proxy_auth_path))
                   /\ SubSeq(t, 1, 3) = socks
                   /\ SubSeq(t, Len(t) - 3, Len(t)) = RouteTokens(peer)

\* C18 witness: arguments were generated for a dynamic proxy with its
\* recorded port and a firewall mark after the proxy arguments.
C18_Witness ==
    /\ result.status = "ok"
    /\ IsShadowsocks /\ IsSome(cmd.proxy_port)
    /\ Pos("--mark", result.args) > 0
    /\ Len(ProxyTokens) = 7

\* The builder that holds, field by field, what the latest call of the
\* field's setter was given, and what new() put there when there was none.
FinalValues ==
    LET Opt(w) == IF IsSome(w) THEN Some(Unwrap(w)) ELSE None
        Raw(w, d) == IF IsSome(w) THEN Unwrap(w) ELSE d
    IN [ openvpn_bin |-> NewCommand.openvpn_bin,
         config |-> Opt(written.config),
         remote |-> Opt(written.remote),
         user_pass_path |-> Opt(written.user_pass_path),
         proxy_auth_path |-> Opt(written.proxy_auth_path),
         ca |-> Opt(written.ca),
         crl |-> Opt(written.crl),
         plugin |-> Opt(written.plugin),
         log |-> Opt(written.log),
         tunnel_options |-> Raw(written.tunnel_options, NewCommand.tunnel_options),
         proxy_settings |-> Opt(written.proxy_settings),
         tunnel_alias |-> Raw(written.tunnel_alias, NewCommand.tunnel_alias),
         enable_ipv6 |-> Raw(written.enable_ipv6, NewCommand.enable_ipv6),
         proxy_port |-> Opt(written.proxy_port),
         fwmark |-> Raw(written.fwmark, NewCommand.fwmark) ]

\* C20: after any sequence of setter calls every field of the builder holds
\* what the latest call of its own setter was given (what new() gave it when
\* its setter was never called), whatever the order of the calls and however
\* often a setter was called; generated arguments are those of that builder.
C20_FieldsHoldLastWrites ==
    /\ cmd = FinalValues
    /\ result.status = "ok" => result.args = get_arguments(FinalValues).args

\* C20 witness: arguments were generated after the proxy port was recorded,
\* the proxy settings were set after it, and one setter was called twice.
C20_Witness ==
    /\ result.status = "ok"
    /\ IsSome(written.proxy_port) /\ IsSome(written.proxy_settings)
    /\ IsSome(cmd.proxy_port)
    /\ setterCalls > Cardinality({f \in DOMAIN written : IsSome(written[f])})

====
